---- MODULE Spec2Model ----
(***************************************************************************)
(* Model of the ComicFusion admin panel: the Home page (credential gate    *)
(* and category directory), the ImageManager (asset listing, pairing       *)
(* reconciler, upload/delete client) and the AudioManager.                 *)
(*                                                                         *)
(* Strings the code takes apart (filenames) are sequences of one-character *)
(* strings; strings the code only compares are TLA+ strings.  An optional  *)
(* value (undefined / null in the source) is the empty sequence, a present *)
(* value x is <<x>>.                                                       *)
(***************************************************************************)
EXTENDS Integers, Sequences, FiniteSets, Bags, TLC

\* ------------------------------------------------------------------ bounds
\* Longest asset list the pairing reconciler is run on (SpecPair).
MaxImages == 3
\* Requests (listing fetches, uploads, deletes) one manager instance may
\* have outstanding at once.
MaxInFlight == 2
\* Category fetches that may be outstanding at once.
MaxCategoryReqs == 1
\* Longest filename ordinal extraction is run on (SpecNames).
MaxNameLen == 4
\* Longest audio listing the catalog is run on (SpecAudio).
MaxAudios == 3

\* ------------------------------------------------------ optional values
None == <<>>
Some(x) == <<x>>
IsSome(o) == o # <<>>
The(o) == o[1]

\* ------------------------------------------------- characters and names
Digits == <<"0", "1", "2", "3", "4", "5", "6", "7", "8", "9">>

IsDigit(c) == \E i \in 1..Len(Digits) : Digits[i] = c

DigitValue(c) == (CHOOSE i \in 1..Len(Digits) : Digits[i] = c) - 1

\* parseInt(digits, 10) on a non-empty run of decimal digits.
RECURSIVE ParseInt(_)
ParseInt(ds) ==
    IF ds = <<>> THEN 0
    ELSE 10 * ParseInt(SubSeq(ds, 1, Len(ds) - 1)) + DigitValue(ds[Len(ds)])

\* `${num}` for a number num >= 0: its decimal digits.
RECURSIVE NumberToString(_)
NumberToString(n) ==
    IF n < 10 THEN <<Digits[n + 1]>>
    ELSE NumberToString(n \div 10) \o <<Digits[(n % 10) + 1]>>

\* Length of the longest run of digits of s that starts at position i.
RECURSIVE DigitRun(_, _)
DigitRun(s, i) ==
    IF i <= Len(s) /\ IsDigit(s[i]) THEN 1 + DigitRun(s, i + 1) ELSE 0

\* filename.match(/^(\d+)\./): the captured digits, or None.  \d+ is greedy
\* and "." is no digit, so the match is the whole leading run of digits and
\* exists iff that run is non-empty and a dot follows it.
MatchLeadingNumber(filename) ==
    LET n == DigitRun(filename, 1)
    IN  IF n >= 1 /\ n < Len(filename) /\ filename[n + 1] = "."
        THEN Some(SubSeq(filename, 1, n))
        ELSE None

\* A faulty variant of getImageNumber, which C11 must tell apart: the
\* pattern lacks its ^ anchor, so the leftmost run of digits that a dot
\* follows is taken wherever it starts.
getImageNumberNoAnchor(filename) ==
    LET hits == {i \in 1..Len(filename) :
                    /\ DigitRun(filename, i) >= 1
                    /\ i + DigitRun(filename, i) <= Len(filename)
                    /\ filename[i + DigitRun(filename, i)] = "."}
    IN  IF hits = {} THEN -1
        ELSE LET i == CHOOSE k \in hits : \A j \in hits : k <= j
             IN  ParseInt(SubSeq(filename, i, i + DigitRun(filename, i) - 1))

\* getImageNumber: parseInt of the match's group, or -1 without a match.
getImageNumber(filename) ==
    LET match == MatchLeadingNumber(filename)
    IN  IF IsSome(match) THEN ParseInt(The(match)) ELSE -1

\* ------------------------------------------------------ pairing reconciler
\* images.filter(img => img.type === t)
ImagesOfType(imgs, t) == SelectSeq(imgs, LAMBDA img : img.type = t)

\* A JavaScript Map built by one forEach pass: keys is the insertion order
\* (set() on a key already present keeps its position), at is the value.
EmptyMap == [keys |-> <<>>, at |-> <<>>]

MapHas(m, k) == \E i \in 1..Len(m.keys) : m.keys[i] = k

MapIndex(m, k) == CHOOSE i \in 1..Len(m.keys) : m.keys[i] = k

\* A faulty variant of MapSet, which C24 must tell apart: a key already
\* present keeps its first value.
MapSetKeepFirst(m, k, v) ==
    IF MapHas(m, k)
    THEN m
    ELSE [keys |-> Append(m.keys, k), at |-> Append(m.at, v)]

\* map.set(k, v)
MapSet(m, k, v) ==
    IF MapHas(m, k)
    THEN [m EXCEPT !.at[MapIndex(m, k)] = v]
    ELSE [keys |-> Append(m.keys, k), at |-> Append(m.at, v)]

\* map.get(k): the value, or undefined.
MapGet(m, k) == IF MapHas(m, k) THEN Some(m.at[MapIndex(m, k)]) ELSE None

\* A faulty variant of Pairable, which C12 must tell apart: ordinal 0 is
\* let into the maps.
PairableFromZero(num) == num >= 0

\* if (num > 0): the ordinals that enter beforeMap / afterMap.
Pairable(num) == num > 0

\* imgs.forEach(img => { num = getImageNumber(img.filename);
\*                       if (num > 0) map.set(num, img) })
RECURSIVE NumberMap(_)
NumberMap(imgs) ==
    IF imgs = <<>> THEN EmptyMap
    ELSE LET rest == NumberMap(SubSeq(imgs, 1, Len(imgs) - 1))
             img  == imgs[Len(imgs)]
             num  == getImageNumber(img.filename)
         IN  IF Pairable(num) THEN MapSet(rest, num, img) ELSE rest

\* new Set([...a, ...b]) as its iteration order: first occurrences, in order.
RECURSIVE Unique(_)
Unique(s) ==
    IF s = <<>> THEN <<>>
    ELSE LET rest == Unique(SubSeq(s, 1, Len(s) - 1))
             x    == s[Len(s)]
         IN  IF \E i \in 1..Len(rest) : rest[i] = x THEN rest ELSE Append(rest, x)

\* A faulty variant of allNumbers, which C2 must tell apart: the after
\* side adds no ordinals.
allNumbersBeforeOnly(beforeMap, afterMap) == Unique(beforeMap.keys)

allNumbers(beforeMap, afterMap) == Unique(beforeMap.keys \o afterMap.keys)

\* A faulty variant of SortNumbers, which C1 must tell apart: no sort.
SortNumbersKeepOrder(s) == s

\* Array.from(set).sort((a, b) => a - b) on distinct numbers.
RECURSIVE SortNumbers(_)
SortNumbers(s) ==
    IF s = <<>> THEN <<>>
    ELSE LET least == CHOOSE i \in 1..Len(s) : \A j \in 1..Len(s) : s[i] <= s[j]
         IN  <<s[least]>> \o
             SortNumbers(SubSeq(s, 1, least - 1) \o SubSeq(s, least + 1, Len(s)))

\* The pairing effect: the value handed to setImagePairs for a given images.
Pairs(imgs) ==
    LET beforeMap == NumberMap(ImagesOfType(imgs, "before"))
        afterMap  == NumberMap(ImagesOfType(imgs, "after"))
        numbers   == SortNumbers(allNumbers(beforeMap, afterMap))
    IN  [i \in 1..Len(numbers) |->
            [filename |-> NumberToString(numbers[i]),
             before   |-> MapGet(beforeMap, numbers[i]),
             after    |-> MapGet(afterMap, numbers[i])]]

\* The Complete / Incomplete badge of a pair.
PairComplete(pair) == IsSome(pair.before) /\ IsSome(pair.after)


\* ------------------------------------------------------------ program data
\* const SUBCATEGORIES: Record<string, string[]>
SUBCATEGORIES ==
    [c \in {"comic-translation", "art-restoration", "mobile-layout"} |->
        CASE c = "comic-translation" -> <<"japanese", "korean", "chinese">>
          [] c = "art-restoration"   -> <<"black-bars", "white-bars", "mosaic">>
          [] c = "mobile-layout"     -> <<"japanese", "korean", "chinese">>]

\* SUBCATEGORIES[category] || null, as a sequence (empty when there is none).
subcategories(category) ==
    IF category \in DOMAIN SUBCATEGORIES THEN SUBCATEGORIES[category] ELSE <<>>

\* const AUDIO_CATEGORIES: AudioCategory[]
AUDIO_CATEGORIES ==
    << [speaker |-> "single-speaker", language |-> "english"],
       [speaker |-> "single-speaker", language |-> "hindi"],
       [speaker |-> "multi-speaker",  language |-> "english"],
       [speaker |-> "multi-speaker",  language |-> "hindi"] >>

\* ------------------------------------------------ values the model draws
\* An S3Image: the fields the code reads.
Asset(c, s, t, f) == [category |-> c, subcategory |-> s, type |-> t, filename |-> f]

\* Filenames the pairing reconciler is exercised on: plain ordinals, a
\* zero-padded one, ordinal 0, a name without leading digits, a name
\* without a dot, and a two-digit ordinal.
PairFilenames ==
    { <<"1", ".", "j", "p", "g">>, <<"2", ".", "j", "p", "g">>,
      <<"0", "1", ".", "p", "n", "g">>, <<"0", ".", "p", "n", "g">>,
      <<"x", "1", ".", "j", "p", "g">>, <<"1", "2">>,
      <<"1", "0", ".", "j", "p", "g">> }

PairAssets ==
    { Asset("comic-translation", Some("japanese"), t, f) :
        t \in {"before", "after"}, f \in PairFilenames }

RECURSIVE SeqsUpTo(_, _)
SeqsUpTo(S, n) ==
    IF n = 0 THEN {<<>>}
    ELSE LET shorter == SeqsUpTo(S, n - 1)
         IN  shorter \cup {Append(s, x) : s \in shorter, x \in S}

\* What the backend's listing endpoint may answer in the session model.
Img1 == Asset("comic-translation", Some("japanese"), "before", <<"1", ".", "j", "p", "g">>)
Img2 == Asset("comic-translation", Some("japanese"), "after", <<"1", ".", "j", "p", "g">>)
Img3 == Asset("mobile-layout", Some("japanese"), "before", <<"2", ".", "j", "p", "g">>)
Img4 == Asset("video-subtitles", None, "before", <<"1", ".", "m", "p", "4">>)

Listings == { <<Img1, Img2, Img3, Img4>>, <<Img1, Img3>> }

\* An AudioFile: the fields the code reads.
Audio(sp, lang, f) == [speaker_mode |-> sp, language |-> lang, filename |-> f]

Aud1 == Audio("single-speaker", "english", <<"1", ".", "m", "p", "3">>)
Aud2 == Audio("single-speaker", "english", <<"2", ".", "m", "p", "3">>)
Aud3 == Audio("multi-speaker", "hindi", <<"1", ".", "m", "p", "3">>)

AudioListings == { <<Aud2, Aud1, Aud3>>, <<Aud1>> }

\* The category directory the backend serves.
CategoryList == <<"comic-translation", "mobile-layout", "audio-story">>

\* A directory with a category that has no subcategories (SpecDelete).
VideoCategoryList == <<"comic-translation", "video-subtitles", "audio-story">>

\* The subcategory tabs the operator clicks.
ClickedSubcategories == {"korean"}

\* The drop zone the operator uploads through.
UploadTypes == {"before"}

Usernames == {"admin"}
Passwords == {"secret"}

\* ------------------------------------------------------------- responses
\* An HTTP exchange as the code sees it: failed is a rejected fetch()
\* promise (network failure); status is response.status; json tells whether
\* response.json() resolves; the remaining fields are the members of the
\* parsed body the code reads (None when the body has no such member).
Response(st, js, det, cats, imgs, auds) ==
    [failed |-> FALSE, status |-> st, json |-> js, detail |-> det,
     categories |-> cats, images |-> imgs, audios |-> auds]

NetworkFailure ==
    [failed |-> TRUE, status |-> 0, json |-> FALSE, detail |-> None,
     categories |-> None, images |-> None, audios |-> None]

\* A FastAPI-style error reply: {"detail": ...}.
ErrorReply(st, text) == Response(st, TRUE, Some(text), None, None, None)

Unauthorized == ErrorReply(401, "Invalid credentials")
ServerError == ErrorReply(500, "Internal error")
\* A non-2xx reply whose body is not JSON (a proxy's HTML error page).
BadGateway == Response(502, FALSE, None, None, None, None)

\* response.ok
Ok(resp) == ~resp.failed /\ resp.status >= 200 /\ resp.status <= 299

LoginResponses ==
    { Response(200, TRUE, None, Some(CategoryList), None, None),
      Unauthorized, ServerError, NetworkFailure }

CategoryResponses ==
    { Response(200, TRUE, None, Some(CategoryList), None, None),
      Unauthorized, ServerError, NetworkFailure }

ListResponses ==
    { Response(200, TRUE, None, None, Some(l), None) : l \in Listings }
        \cup { Unauthorized, NetworkFailure }

AudioListResponses ==
    { Response(200, TRUE, None, None, None, Some(l)) : l \in AudioListings }
        \cup { Unauthorized, BadGateway, NetworkFailure }

MutationResponses ==
    { Response(200, TRUE, None, None, None, None),
      Unauthorized, BadGateway, NetworkFailure }


\* ------------------------------------------------------------------ state
VARIABLES
    \* the browser tab
    store,                \* sessionStorage item 'admin_auth': None or Some(text)
    alertMsg,             \* the last alert() dialog shown
    \* Home
    mounted,              \* Home's mount effect has run
    categories, selectedCategory, loading, isAuthenticated, authError,
    credentials,
    loginReq,             \* the login probe in flight: None or Some(request)
    categoryReqs,         \* category fetches in flight, oldest first
    \* ImageManager (the mounted instance)
    images, imagePairs, imageLoading, imageUploading, selectedSubcategory,
    imageReqs,            \* listing fetches in flight, a bag
    lastFetch,            \* history: how the listing replies have raced
    imageMuts,            \* upload / delete requests in flight, a bag
    \* AudioManager (the mounted instance)
    audios, audioLoading, audioUploading, activeCategory,
    audioReqs,            \* listing fetches in flight, a bag
    audioMuts             \* upload / delete requests in flight, a bag

tabVars == <<store, alertMsg>>
homeVars == <<mounted, categories, selectedCategory, loading, isAuthenticated,
              authError, credentials, loginReq, categoryReqs>>
imageVars == <<images, imagePairs, imageLoading, imageUploading,
               selectedSubcategory, imageReqs, lastFetch, imageMuts>>
audioVars == <<audios, audioLoading, audioUploading, activeCategory,
               audioReqs, audioMuts>>
vars == <<tabVars, homeVars, imageVars, audioVars>>

\* Requests in flight whose order of issue the program cannot observe are
\* kept as a bag: r joins it when sent and leaves it when answered.
Issue(reqs, r) == reqs (+) SetToBag({r})
Settle(reqs, r) == reqs (-) SetToBag({r})

\* s without its i-th element.
RemoveAt(s, i) == SubSeq(s, 1, i - 1) \o SubSeq(s, i + 1, Len(s))

\* ------------------------------------------------------------ credentials
\* A JSON value as far as the code looks into it: null, or an object with
\* optional username and password members.
Null == [kind |-> "null", username |-> None, password |-> None]
\* A faulty variant of Creds, which C15 must tell apart: the members are
\* swapped.
CredsSwapped(u, p) == [kind |-> "object", username |-> Some(p), password |-> Some(u)]

\* const creds = { username, password }
Creds(u, p) == [kind |-> "object", username |-> Some(u), password |-> Some(p)]

\* JavaScript truthiness of such a value.
Truthy(v) == v.kind = "object"

\* JSON.stringify(v): a text that parses back to v.
Stringify(v) == [parses |-> TRUE, value |-> v]
\* A text JSON.parse() throws on.
Unparsable == [parses |-> FALSE, value |-> Null]

\* `${member}` of a template string: the text, or "undefined".
Interpolate(member) == IF IsSome(member) THEN The(member) ELSE "undefined"

\* 'Basic ' + btoa(`${username}:${password}`)
BasicAuth(username, password) ==
    [scheme |-> "Basic",
     b64 |-> <<Interpolate(username), ":", Interpolate(password)>>]

\* getAuthHeaders(): the Authorization header, or None for {}.
getAuthHeaders(st) ==
    IF ~IsSome(st) THEN None
    ELSE IF ~The(st).parses THEN None
    ELSE IF The(st).value.kind = "null" THEN None   \* destructuring null throws
    ELSE Some(BasicAuth(The(st).value.username, The(st).value.password))

\* ---------------------------------------------------------------- alerts
NoAlert == [text |-> "", detail |-> None]
Alert(text) == [text |-> text, detail |-> None]
\* alert(`${text}: ${error.detail}`)
AlertDetail(text, detail) == [text |-> text, detail |-> Some(Interpolate(detail))]

\* ----------------------------------------------------- which view is shown
\* Home renders ImageManager / AudioManager below the category tabs.
ImageShown(auth, cats, sel) ==
    auth /\ cats # <<>> /\ sel # "" /\ sel # "audio-story"

AudioShown(auth, cats, sel) ==
    auth /\ cats # <<>> /\ sel = "audio-story"

ImageMounted == ImageShown(isAuthenticated, categories, selectedCategory)
AudioMounted == AudioShown(isAuthenticated, categories, selectedCategory)

\* AudioManager's render throws once audios is undefined (audios.filter);
\* nothing catches it, so the whole page is replaced by the error screen.
Crashed == AudioMounted /\ ~IsSome(audios)

\* ------------------------------------------------------------ ImageManager
\* The request fetchImages() sends and the closure its continuation keeps:
\* category and selectedSubcategory of the render that called it.  after
\* names the handler that awaits it ("effect", "upload" or "delete").
\* newest is history, not program state: no fetch was issued after it.
ListFetch(category, subcategory, st, after) ==
    [category |-> category, subcategory |-> subcategory,
     auth |-> getAuthHeaders(st), after |-> after, newest |-> TRUE]

\* fetchImages() is called: fetch joins the ones in flight as the newest.
IssueFetch(reqs, fetch) ==
    Issue(BagOfAll(LAMBDA r : [r EXCEPT !.newest = FALSE], reqs), fetch)

\* fetchImages() is called for each of fetches in turn.
RECURSIVE IssueFetches(_, _)
IssueFetches(reqs, fetches) ==
    IF fetches = <<>> THEN reqs
    ELSE IssueFetches(IssueFetch(reqs, Head(fetches)), Tail(fetches))

\* lastFetch is history, not program state.  It follows the newest fetch:
\*   "none"      no fetch was issued by this instance yet
\*   "pending"   the newest fetch is outstanding
\*   "overtook"  the newest fetch was answered while older ones are out
\*   "latest"    the newest fetch was answered, and no older one after it
\*               brought a listing
\*   "stale"     an older fetch brought the listing now held, after the
\*               newest one had been answered
\* The history after req, one of reqs, is answered, with a listing or not.
RaceAfter(reqs, req, withListing) ==
    IF req.newest
    THEN (IF BagCardinality(reqs) > 1 THEN "overtook" ELSE "latest")
    ELSE IF lastFetch = "pending" THEN "pending"
    ELSE IF withListing THEN "stale"
    ELSE IF BagCardinality(reqs) > 1 THEN lastFetch
    ELSE IF lastFetch = "overtook" THEN "latest" ELSE lastFetch

\* The subcategory effect (deps [category]).
InitialSubcategory(category) ==
    IF Len(subcategories(category)) > 0
    THEN Some(subcategories(category)[1])
    ELSE None

\* The fetches the effects issue after a render in which category changed
\* (or the first render): the fetch effect runs with the subcategory of that
\* render, and again after the subcategory effect changed selectedSubcategory.
EffectFetches(category, subcategory, st) ==
    <<ListFetch(category, subcategory, st, "effect")>> \o
    (IF InitialSubcategory(category) # subcategory
     THEN <<ListFetch(category, InitialSubcategory(category), st, "effect")>>
     ELSE <<>>)

\* fetchImages: data.images filtered for the closure's category/subcategory.
categoryImages(imgs, category, subcategory) ==
    LET ofCategory == SelectSeq(imgs, LAMBDA img : img.category = category)
    IN  IF IsSome(subcategory)
        THEN SelectSeq(ofCategory, LAMBDA img : img.subcategory = subcategory)
        ELSE ofCategory

\* What ImageManager holds after Home rendered with (auth, cats, sel) and
\* the session store st: untouched, re-rendered with a new category prop,
\* freshly mounted, or unmounted.  An unmounted instance's state is gone and
\* React ignores updates to it, so its requests leave the model with it.
ImageAfter(auth, cats, sel, st) ==
    IF ~ImageShown(auth, cats, sel)
    THEN [images |-> <<>>, imagePairs |-> <<>>, imageLoading |-> TRUE,
          imageUploading |-> FALSE, selectedSubcategory |-> None,
          imageReqs |-> EmptyBag, lastFetch |-> "none", imageMuts |-> EmptyBag]
    ELSE IF ~ImageMounted
    THEN [images |-> <<>>, imagePairs |-> Pairs(<<>>), imageLoading |-> TRUE,
          imageUploading |-> FALSE,
          selectedSubcategory |-> InitialSubcategory(sel),
          imageReqs |-> IssueFetches(EmptyBag, EffectFetches(sel, None, st)),
          lastFetch |-> "pending",
          imageMuts |-> EmptyBag]
    ELSE IF sel # selectedCategory
    THEN [images |-> images, imagePairs |-> imagePairs, imageLoading |-> TRUE,
          imageUploading |-> imageUploading,
          selectedSubcategory |-> InitialSubcategory(sel),
          imageReqs |-> IssueFetches(imageReqs,
                                    EffectFetches(sel, selectedSubcategory, st)),
          lastFetch |-> "pending", imageMuts |-> imageMuts]
    ELSE [images |-> images, imagePairs |-> imagePairs,
          imageLoading |-> imageLoading, imageUploading |-> imageUploading,
          selectedSubcategory |-> selectedSubcategory,
          imageReqs |-> imageReqs, lastFetch |-> lastFetch,
          imageMuts |-> imageMuts]

\* ------------------------------------------------------------ AudioManager
AudioFetch(after) == [auth |-> None, after |-> after]

AudioAfter(auth, cats, sel) ==
    IF ~AudioShown(auth, cats, sel)
    THEN [audios |-> Some(<<>>), audioLoading |-> FALSE, audioUploading |-> FALSE,
          activeCategory |-> AUDIO_CATEGORIES[1], audioReqs |-> EmptyBag,
          audioMuts |-> EmptyBag]
    ELSE IF ~AudioMounted
    THEN [audios |-> Some(<<>>), audioLoading |-> TRUE, audioUploading |-> FALSE,
          activeCategory |-> AUDIO_CATEGORIES[1],
          audioReqs |-> Issue(EmptyBag, AudioFetch("effect")),
          audioMuts |-> EmptyBag]
    ELSE [audios |-> audios, audioLoading |-> audioLoading,
          audioUploading |-> audioUploading, activeCategory |-> activeCategory,
          audioReqs |-> audioReqs, audioMuts |-> audioMuts]

\* Home re-renders with (auth, cats, sel); st is the session store by then.
RenderManagers(auth, cats, sel, st) ==
    LET im == ImageAfter(auth, cats, sel, st)
        au == AudioAfter(auth, cats, sel)
    IN  /\ BagCardinality(im.imageReqs) + BagCardinality(im.imageMuts) <= MaxInFlight
        /\ images' = im.images
        /\ imagePairs' = im.imagePairs
        /\ imageLoading' = im.imageLoading
        /\ imageUploading' = im.imageUploading
        /\ selectedSubcategory' = im.selectedSubcategory
        /\ imageReqs' = im.imageReqs
        /\ lastFetch' = im.lastFetch
        /\ imageMuts' = im.imageMuts
        /\ audios' = au.audios
        /\ audioLoading' = au.audioLoading
        /\ audioUploading' = au.audioUploading
        /\ activeCategory' = au.activeCategory
        /\ audioReqs' = au.audioReqs
        /\ audioMuts' = au.audioMuts


\* ------------------------------------------------------------------- Init
\* What sessionStorage may hold when the page loads.
InitialStores ==
    {None, Some(Unparsable), Some(Stringify(Null))}
        \cup {Some(Stringify(Creds(u, p))) : u \in Usernames, p \in Passwords}

\* The page as first rendered, before any effect has run.
Init ==
    /\ store \in InitialStores
    /\ alertMsg = NoAlert
    /\ mounted = FALSE
    /\ categories = <<>>
    /\ selectedCategory = ""
    /\ loading = TRUE
    /\ isAuthenticated = FALSE
    /\ authError = ""
    /\ credentials = Null
    /\ loginReq = None
    /\ categoryReqs = <<>>
    /\ images = <<>>
    /\ imagePairs = <<>>
    /\ imageLoading = TRUE
    /\ imageUploading = FALSE
    /\ selectedSubcategory = None
    /\ imageReqs = EmptyBag
    /\ lastFetch = "none"
    /\ imageMuts = EmptyBag
    /\ audios = Some(<<>>)
    /\ audioLoading = FALSE
    /\ audioUploading = FALSE
    /\ activeCategory = AUDIO_CATEGORIES[1]
    /\ audioReqs = EmptyBag
    /\ audioMuts = EmptyBag

\* The page reacts to events: it is mounted, not replaced by the error
\* screen, and no alert() dialog is blocking the event loop.
Live == mounted /\ ~Crashed /\ alertMsg = NoAlert

\* ------------------------------------------------------------------- Home
\* fetchCategories() as the effect with deps [isAuthenticated, credentials]
\* calls it: the requests it adds for a render with (auth, creds).
CategoryFetches(auth, creds) ==
    IF auth /\ Truthy(creds)
    THEN <<[auth |-> Some(BasicAuth(creds.username, creds.password))]>>
    ELSE <<>>

\* The mount effect: restore the session from sessionStorage.
HomeMount ==
    /\ ~mounted
    /\ mounted' = TRUE
    /\ loading' = FALSE
    /\ IF IsSome(store) /\ The(store).parses
       THEN /\ credentials' = The(store).value
            /\ isAuthenticated' = TRUE
            /\ store' = store
       ELSE /\ UNCHANGED <<credentials, isAuthenticated>>
            /\ store' = None
    /\ categoryReqs' = categoryReqs \o CategoryFetches(isAuthenticated', credentials')
    /\ UNCHANGED <<alertMsg, categories, selectedCategory, authError, loginReq>>
    /\ UNCHANGED <<imageVars, audioVars>>

\* The login form is what Home renders.
LoginFormShown == ~isAuthenticated /\ ~loading

\* handleLogin up to its await: the operator submits the login form.
Login(username, password) ==
    /\ Live /\ LoginFormShown
    /\ Len(categoryReqs) < MaxCategoryReqs
    /\ authError' = ""
    /\ loading' = TRUE
    /\ loginReq' = Some([username |-> username, password |-> password,
                         auth |-> Some(BasicAuth(Some(username), Some(password)))])
    /\ UNCHANGED <<tabVars, mounted, categories, selectedCategory,
                   isAuthenticated, credentials, categoryReqs>>
    /\ UNCHANGED <<imageVars, audioVars>>

\* A faulty variant of LoginAccepts, which C5 must tell apart.
LoginAccepts401(resp) == Ok(resp) \/ resp.status = 401

\* A faulty variant of LoginAccepts, which C14 must tell apart: only 401
\* is turned away.
LoginAcceptsUnless401(resp) == resp.status # 401

\* The probe's reply lets the operator in.
LoginAccepts(resp) == Ok(resp)

\* handleLogin from its await on: the probe is answered.
LoginRespond(resp) ==
    /\ Live /\ IsSome(loginReq)
    /\ loginReq' = None
    /\ loading' = FALSE
    /\ IF resp.failed
       THEN /\ authError' = "Failed to connect to server"
            /\ UNCHANGED <<store, credentials, isAuthenticated, categoryReqs>>
       ELSE IF LoginAccepts(resp)
       THEN /\ credentials' = Creds(The(loginReq).username, The(loginReq).password)
            /\ store' = Some(Stringify(credentials'))
            /\ isAuthenticated' = TRUE
            /\ categoryReqs' = categoryReqs \o CategoryFetches(TRUE, credentials')
            /\ UNCHANGED authError
       ELSE /\ authError' = IF resp.status = 401
                            THEN "Invalid username or password"
                            ELSE "Authentication failed"
            /\ UNCHANGED <<store, credentials, isAuthenticated, categoryReqs>>
    /\ UNCHANGED <<alertMsg, mounted, categories, selectedCategory>>
    /\ RenderManagers(isAuthenticated', categories, selectedCategory, store')

\* A faulty variant of handleLogout, which C16 must tell apart: the
\* admin_auth item is left in sessionStorage.
handleLogoutKeepsStore ==
    /\ isAuthenticated' = FALSE
    /\ credentials' = Null
    /\ store' = store
    /\ categories' = <<>>
    /\ selectedCategory' = ""
    /\ RenderManagers(FALSE, <<>>, "", store)

\* handleLogout's assignments.
handleLogout ==
    /\ isAuthenticated' = FALSE
    /\ credentials' = Null
    /\ store' = None
    /\ categories' = <<>>
    /\ selectedCategory' = ""
    /\ RenderManagers(FALSE, <<>>, "", None)

\* The operator presses Logout.
Logout ==
    /\ Live /\ isAuthenticated
    /\ handleLogout
    /\ UNCHANGED <<alertMsg, mounted, loading, authError, loginReq, categoryReqs>>

\* fetchCategories from its await on: the i-th outstanding fetch is answered.
CategoryRespond(i, resp) ==
    /\ Live /\ i \in 1..Len(categoryReqs)
    /\ categoryReqs' = RemoveAt(categoryReqs, i)
    /\ IF ~resp.failed /\ resp.status = 401
       THEN handleLogout
       ELSE /\ IF ~resp.failed /\ resp.json /\ IsSome(resp.categories)
               THEN /\ categories' = The(resp.categories)
                    /\ selectedCategory' =
                          IF Len(The(resp.categories)) > 0
                          THEN The(resp.categories)[1]
                          ELSE selectedCategory
               ELSE /\ categories' = <<>>
                    /\ UNCHANGED selectedCategory
            /\ UNCHANGED <<store, isAuthenticated, credentials>>
            /\ RenderManagers(isAuthenticated, categories', selectedCategory', store)
    /\ UNCHANGED <<alertMsg, mounted, loading, authError, loginReq>>

\* The operator clicks a category tab.
SelectCategory(id) ==
    /\ Live /\ isAuthenticated
    /\ \E i \in 1..Len(categories) : categories[i] = id
    /\ id # selectedCategory
    /\ selectedCategory' = id
    /\ RenderManagers(isAuthenticated, categories, id, store)
    /\ UNCHANGED <<tabVars, mounted, categories, loading, isAuthenticated,
                   authError, credentials, loginReq, categoryReqs>>


\* ------------------------------------------------------------ ImageManager
\* ImageManager renders its controls (it renders a spinner while loading).
ImageControlsShown == Live /\ ImageMounted /\ ~imageLoading

\* The body of a listing reply as fetchImages reads it: Some(data.images),
\* or None when awaiting the reply or reading data.images.filter throws.
ListingOf(resp) ==
    IF ~resp.failed /\ resp.json THEN resp.images ELSE None

\* The operator clicks a subcategory tab; the fetch effect follows.
SelectSubcategory(sub) ==
    /\ ImageControlsShown
    /\ \E i \in 1..Len(subcategories(selectedCategory)) :
           subcategories(selectedCategory)[i] = sub
    /\ Some(sub) # selectedSubcategory
    /\ BagCardinality(imageReqs) + BagCardinality(imageMuts) < MaxInFlight
    /\ selectedSubcategory' = Some(sub)
    /\ imageLoading' = TRUE
    /\ imageReqs' = IssueFetch(imageReqs,
                               ListFetch(selectedCategory, Some(sub), store, "effect"))
    /\ lastFetch' = "pending"
    /\ UNCHANGED <<images, imagePairs, imageUploading, imageMuts>>
    /\ UNCHANGED <<tabVars, homeVars, audioVars>>

\* A variant of fetchImages with a generation check, which C9 must tell
\* apart: only the newest fetch's listing is applied.
fetchImagesDropOvertaken(req, resp) ==
    IF IsSome(ListingOf(resp)) /\ req.newest
    THEN categoryImages(The(ListingOf(resp)), req.category, req.subcategory)
    ELSE images

\* A variant of fetchImages that drops the listing of a fetch issued for a
\* category no longer selected, which C8 must tell apart.
fetchImagesDropStale(req, resp) ==
    IF IsSome(ListingOf(resp)) /\ req.category = selectedCategory
    THEN categoryImages(The(ListingOf(resp)), req.category, req.subcategory)
    ELSE images

\* The images state after fetchImages' continuation ran on reply resp.
fetchImages(req, resp) ==
    IF IsSome(ListingOf(resp))
    THEN categoryImages(The(ListingOf(resp)), req.category, req.subcategory)
    ELSE images

\* The alert the handler awaiting a listing fetch shows once it completed.
AfterFetchAlert(req) ==
    CASE req.after = "upload" ->
            Alert(IF req.category = "video-subtitles"
                  THEN "Video uploaded successfully!"
                  ELSE "Image uploaded successfully!")
      [] req.after = "delete" -> Alert("Image deleted successfully!")
      [] OTHER -> alertMsg

\* fetchImages from its await on, and what the handler awaiting it does
\* next: the outstanding listing fetch req is answered.
ImageListRespond(req, resp) ==
    /\ Live /\ ImageMounted /\ BagIn(req, imageReqs)
    /\ imageReqs' = Settle(imageReqs, req)
    /\ lastFetch' = RaceAfter(imageReqs, req, IsSome(ListingOf(resp)))
    /\ images' = fetchImages(req, resp)
    /\ imagePairs' = Pairs(images')
    /\ imageLoading' = FALSE
    /\ alertMsg' = AfterFetchAlert(req)
    /\ UNCHANGED <<imageUploading, selectedSubcategory, imageMuts>>
    /\ UNCHANGED <<store, homeVars, audioVars>>

\* handleUpload up to its await: a file is dropped on (or picked for) the
\* before or after zone.
ImageUpload(imageType) ==
    /\ ImageControlsShown
    /\ BagCardinality(imageReqs) + BagCardinality(imageMuts) < MaxInFlight
    /\ imageUploading' = TRUE
    /\ imageMuts' = Issue(imageMuts,
          [op |-> "upload", category |-> selectedCategory,
           subcategory |-> selectedSubcategory, type |-> imageType,
           path |-> <<>>, auth |-> getAuthHeaders(store)])
    /\ UNCHANGED <<images, imagePairs, imageLoading, selectedSubcategory,
                   imageReqs, lastFetch>>
    /\ UNCHANGED <<tabVars, homeVars, audioVars>>

\* The assets ImageManager shows a Delete button for.
DisplayedImages ==
    {The(imagePairs[i].before) : i \in {j \in 1..Len(imagePairs) : IsSome(imagePairs[j].before)}}
    \cup
    {The(imagePairs[i].after) : i \in {j \in 1..Len(imagePairs) : IsSome(imagePairs[j].after)}}

\* A faulty variant of DeleteProceeds, which C17 must tell apart: the
\* answer to confirm() is ignored.
DeleteProceedsAlways(confirmed) == TRUE

\* if (!confirm(`Delete ${filename}?`)) return, in both managers.
DeleteProceeds(confirmed) == confirmed

\* A faulty variant of deletePath, which C18 must tell apart: the
\* subcategory segment is the selected tab's, not the asset's.
deletePathOfSelected(img) ==
    IF IsSome(selectedSubcategory)
    THEN <<img.category, The(selectedSubcategory), img.type, img.filename>>
    ELSE <<img.category, img.type, img.filename>>

\* handleDelete's deletePath, segment by segment.
deletePath(img) ==
    IF IsSome(img.subcategory)
    THEN <<img.category, The(img.subcategory), img.type, img.filename>>
    ELSE <<img.category, img.type, img.filename>>

\* handleDelete up to its await: the operator clicks Delete on img and
\* answers the confirm() dialog.
ImageDelete(img, confirmed) ==
    /\ ImageControlsShown
    /\ img \in DisplayedImages
    /\ IF ~DeleteProceeds(confirmed)
       THEN UNCHANGED vars
       ELSE /\ BagCardinality(imageReqs) + BagCardinality(imageMuts) < MaxInFlight
            /\ imageMuts' = Issue(imageMuts,
                  [op |-> "delete", category |-> selectedCategory,
                   subcategory |-> selectedSubcategory, type |-> img.type,
                   path |-> deletePath(img), auth |-> getAuthHeaders(store)])
            /\ UNCHANGED <<images, imagePairs, imageLoading, imageUploading,
                           selectedSubcategory, imageReqs, lastFetch>>
            /\ UNCHANGED <<tabVars, homeVars, audioVars>>

\* The alert handleUpload / handleDelete show for a reply that is not ok.
FailureAlert(text, resp) ==
    IF ~resp.failed /\ resp.json
    THEN AlertDetail(text, resp.detail)
    ELSE Alert(text)

\* A faulty variant of RefetchAfter, which C23 must tell apart: the listing
\* is re-read after a reply that is not ok as well as after one that is.
RefetchAfterAnyReply(resp) == ~resp.failed

\* Faulty variants of RefetchAfter, which C7 and C6 must tell apart.
RefetchAfterNever(resp) == FALSE

RefetchAfterAlways(resp) == TRUE

\* handleUpload / handleDelete re-read the listing after this reply.
RefetchAfter(resp) == Ok(resp)

\* images after handleUpload / handleDelete handled reply resp: they never
\* touch it themselves.
ImageMutationImages(m, resp) == images

\* handleUpload / handleDelete from their await on: the outstanding upload
\* or delete m is answered.
ImageMutationRespond(m, resp) ==
    /\ Live /\ ImageMounted /\ BagIn(m, imageMuts)
    /\ imageMuts' = Settle(imageMuts, m)
    /\ images' = ImageMutationImages(m, resp)
    /\ imagePairs' = IF images' = images THEN imagePairs ELSE Pairs(images')
    /\ IF RefetchAfter(resp)
       THEN /\ imageLoading' = TRUE
            /\ imageReqs' = IssueFetch(imageReqs,
                  ListFetch(m.category, m.subcategory, store, m.op))
            /\ lastFetch' = "pending"
            /\ UNCHANGED <<alertMsg, imageUploading>>
       ELSE /\ alertMsg' = FailureAlert(IF m.op = "upload"
                                        THEN "Upload failed" ELSE "Delete failed",
                                        resp)
            /\ UNCHANGED <<imageUploading, imageLoading, imageReqs, lastFetch>>
    /\ UNCHANGED selectedSubcategory
    /\ UNCHANGED <<store, homeVars, audioVars>>


\* ------------------------------------------------------------ AudioManager
\* getAudioNumber: filename.match(/(\d+)\./) is the leftmost run of digits
\* that a dot follows; parseInt of it, or 0 when there is none.
getAudioNumber(filename) ==
    LET run  == [i \in 1..Len(filename) |-> DigitRun(filename, i)]
        hits == {i \in 1..Len(filename) :
                    /\ run[i] >= 1
                    /\ i + run[i] <= Len(filename)
                    /\ filename[i + run[i]] = "."}
    IN  IF hits = {} THEN 0
        ELSE LET i == CHOOSE k \in hits : \A j \in hits : k <= j
             IN  ParseInt(SubSeq(filename, i, i + run[i] - 1))

\* Array.prototype.sort with (a, b) => number(a) - number(b): stable.
RECURSIVE SortAudios(_)
SortAudios(s) ==
    IF s = <<>> THEN <<>>
    ELSE LET least == CHOOSE i \in 1..Len(s) :
                         /\ \A j \in 1..Len(s) :
                               getAudioNumber(s[i].filename) <= getAudioNumber(s[j].filename)
                         /\ \A j \in 1..(i - 1) :
                               getAudioNumber(s[j].filename) > getAudioNumber(s[i].filename)
         IN  <<s[least]>> \o
             SortAudios(SubSeq(s, 1, least - 1) \o SubSeq(s, least + 1, Len(s)))

getCategoryAudios(list, category) ==
    SortAudios(SelectSeq(list, LAMBDA a : /\ a.speaker_mode = category.speaker
                                          /\ a.language = category.language))

\* const categoryAudios = getCategoryAudios(activeCategory)
categoryAudios == getCategoryAudios(The(audios), activeCategory)

RECURSIVE MaxOf(_)
MaxOf(S) ==
    IF S = {} THEN 0
    ELSE LET x == CHOOSE y \in S : TRUE
             m == MaxOf(S \ {x})
         IN  IF x > m THEN x ELSE m

\* Math.max(...categoryAudios.map(a => getAudioNumber(a.filename)), 0)
maxNumber ==
    MaxOf({getAudioNumber(categoryAudios[i].filename) : i \in 1..Len(categoryAudios)})

\* A faulty variant of announcedNumber, which C21 must tell apart: the
\* number of assets plus one.
announcedNumberByCount == Len(categoryAudios) + 1

\* "Will be automatically numbered as {maxNumber + 1}"
announcedNumber == maxNumber + 1

\* A faulty variant of Slots, which C20 must tell apart: no minimum of 3.
SlotsUpToMax == 1..maxNumber

\* The grid's slot numbers: 1..Math.max(maxNumber, 3).
Slots == 1..(IF maxNumber > 3 THEN maxNumber ELSE 3)

\* categoryAudios.find(a => getAudioNumber(a.filename) === number)
SlotAudio(number) ==
    LET hits == {i \in 1..Len(categoryAudios) :
                    getAudioNumber(categoryAudios[i].filename) = number}
    IN  IF hits = {} THEN None
        ELSE Some(categoryAudios[CHOOSE i \in hits : \A j \in hits : i <= j])

\* AudioManager renders its tabs always, its grid unless loading.
AudioGridShown == Live /\ AudioMounted /\ ~audioLoading

\* The operator clicks one of the four audio category tabs.
AudioSelectCategory(k) ==
    /\ Live /\ AudioMounted
    /\ k \in 1..Len(AUDIO_CATEGORIES)
    /\ AUDIO_CATEGORIES[k] # activeCategory
    /\ activeCategory' = AUDIO_CATEGORIES[k]
    /\ UNCHANGED <<audios, audioLoading, audioUploading, audioReqs, audioMuts>>
    /\ UNCHANGED <<tabVars, homeVars, imageVars>>

\* The audios state after fetchAudios' continuation ran on reply resp:
\* Some(list), or None once setAudios(undefined) ran.
fetchAudios(resp) ==
    IF ~resp.failed /\ resp.json THEN resp.audios
    ELSE audios

\* fetchAudios from its await on, and what the handler awaiting it does
\* next: the outstanding listing fetch req is answered.
AudioListRespond(req, resp) ==
    /\ Live /\ AudioMounted /\ BagIn(req, audioReqs)
    /\ audioReqs' = Settle(audioReqs, req)
    /\ audios' = fetchAudios(resp)
    /\ audioLoading' = FALSE
    /\ alertMsg' = IF req.after = "upload"
                   THEN Alert("Audio uploaded successfully!")
                   ELSE alertMsg
    /\ UNCHANGED <<audioUploading, activeCategory, audioMuts>>
    /\ UNCHANGED <<store, homeVars, imageVars>>

\* handleFileSelect up to its await: a file is picked in an empty slot or
\* under "Upload New Audio" (the inputs are disabled while uploading).
AudioUpload ==
    /\ AudioGridShown /\ ~audioUploading
    /\ BagCardinality(audioReqs) + BagCardinality(audioMuts) < MaxInFlight
    /\ audioUploading' = TRUE
    /\ audioMuts' = Issue(audioMuts,
          [op |-> "upload", speaker_mode |-> activeCategory.speaker,
           language |-> activeCategory.language, path |-> <<>>, auth |-> None])
    /\ UNCHANGED <<audios, audioLoading, activeCategory, audioReqs>>
    /\ UNCHANGED <<tabVars, homeVars, imageVars>>

\* handleDelete up to its await: the operator clicks Delete in a filled slot
\* and answers the confirm() dialog.
AudioDelete(number, confirmed) ==
    /\ AudioGridShown
    /\ number \in Slots
    /\ IsSome(SlotAudio(number))
    /\ IF ~DeleteProceeds(confirmed)
       THEN UNCHANGED vars
       ELSE /\ BagCardinality(audioReqs) + BagCardinality(audioMuts) < MaxInFlight
            /\ audioMuts' = Issue(audioMuts,
                  [op |-> "delete", speaker_mode |-> The(SlotAudio(number)).speaker_mode,
                   language |-> The(SlotAudio(number)).language,
                   path |-> <<The(SlotAudio(number)).speaker_mode,
                              The(SlotAudio(number)).language,
                              The(SlotAudio(number)).filename>>,
                   auth |-> None])
            /\ UNCHANGED <<audios, audioLoading, audioUploading, activeCategory,
                           audioReqs>>
            /\ UNCHANGED <<tabVars, homeVars, imageVars>>

\* handleFileSelect / handleDelete from their await on: the outstanding
\* upload or delete m is answered.
AudioMutationRespond(m, resp) ==
    /\ Live /\ AudioMounted /\ BagIn(m, audioMuts)
    /\ audioMuts' = Settle(audioMuts, m)
    /\ IF RefetchAfter(resp)
       THEN /\ audioLoading' = TRUE
            /\ audioReqs' = Issue(audioReqs, AudioFetch(m.op))
            /\ UNCHANGED <<alertMsg, audioUploading>>
       ELSE /\ alertMsg' = FailureAlert(IF m.op = "upload"
                                        THEN "Upload failed" ELSE "Delete failed",
                                        resp)
            /\ UNCHANGED <<audioUploading, audioLoading, audioReqs>>
    /\ UNCHANGED <<audios, activeCategory>>
    /\ UNCHANGED <<store, homeVars, imageVars>>

\* ----------------------------------------------------------------- alerts
\* The alerts handleUpload / handleFileSelect show; their finally block,
\* setUploading(false), runs once the dialog is closed.
UploadAlertTexts ==
    {"Image uploaded successfully!", "Video uploaded successfully!",
     "Audio uploaded successfully!", "Upload failed"}

\* The operator closes the alert() dialog; the handler that showed it
\* resumes.
DismissAlert ==
    /\ mounted /\ alertMsg # NoAlert
    /\ alertMsg' = NoAlert
    /\ imageUploading' = IF ImageMounted /\ alertMsg.text \in UploadAlertTexts
                         THEN FALSE ELSE imageUploading
    /\ audioUploading' = IF AudioMounted /\ alertMsg.text \in UploadAlertTexts
                         THEN FALSE ELSE audioUploading
    /\ UNCHANGED <<store, homeVars>>
    /\ UNCHANGED <<images, imagePairs, imageLoading, selectedSubcategory,
                   imageReqs, lastFetch, imageMuts>>
    /\ UNCHANGED <<audios, audioLoading, activeCategory, audioReqs, audioMuts>>

\* ------------------------------------------------------------------- Next
Next ==
    \/ HomeMount
    \/ \E u \in Usernames, p \in Passwords : Login(u, p)
    \/ \E resp \in LoginResponses : LoginRespond(resp)
    \/ Logout
    \/ \E i \in 1..MaxCategoryReqs, resp \in CategoryResponses : CategoryRespond(i, resp)
    \/ \E i \in 1..Len(CategoryList) : SelectCategory(CategoryList[i])
    \/ \E sub \in ClickedSubcategories : SelectSubcategory(sub)
    \/ \E req \in BagToSet(imageReqs), resp \in ListResponses : ImageListRespond(req, resp)
    \/ \E t \in UploadTypes : ImageUpload(t)
    \/ \E img \in DisplayedImages, confirmed \in BOOLEAN : ImageDelete(img, confirmed)
    \/ \E m \in BagToSet(imageMuts), resp \in MutationResponses : ImageMutationRespond(m, resp)
    \/ \E k \in 1..Len(AUDIO_CATEGORIES) : AudioSelectCategory(k)
    \/ \E req \in BagToSet(audioReqs), resp \in AudioListResponses : AudioListRespond(req, resp)
    \/ AudioUpload
    \/ \E n \in 1..3, confirmed \in BOOLEAN : AudioDelete(n, confirmed)
    \/ \E m \in BagToSet(audioMuts), resp \in MutationResponses : AudioMutationRespond(m, resp)
    \/ DismissAlert

Spec == Init /\ [][Next]_vars


\* -------------------------------------------- the reconciler on its own
\* ImageManager as it stands once a session is up and its first listing
\* fetches were answered with an empty listing.
InitPair ==
    /\ store = Some(Stringify(Creds("admin", "secret")))
    /\ alertMsg = NoAlert
    /\ mounted = TRUE
    /\ categories = CategoryList
    /\ selectedCategory = "comic-translation"
    /\ loading = FALSE
    /\ isAuthenticated = TRUE
    /\ authError = ""
    /\ credentials = Creds("admin", "secret")
    /\ loginReq = None
    /\ categoryReqs = <<>>
    /\ images = <<>>
    /\ imagePairs = <<>>
    /\ imageLoading = FALSE
    /\ imageUploading = FALSE
    /\ selectedSubcategory = Some("japanese")
    /\ imageReqs = EmptyBag
    /\ lastFetch = "latest"
    /\ imageMuts = EmptyBag
    /\ audios = Some(<<>>)
    /\ audioLoading = FALSE
    /\ audioUploading = FALSE
    /\ activeCategory = AUDIO_CATEGORIES[1]
    /\ audioReqs = EmptyBag
    /\ audioMuts = EmptyBag

\* The asset lists the reconciler is run on.
PairLists == SeqsUpTo(PairAssets, MaxImages)

\* setImages(imgs) followed by the pairing effect (deps [images]); one
\* reconciliation per behaviour.
SetImages(imgs) ==
    /\ images = <<>>
    /\ images' = imgs
    /\ imagePairs' = Pairs(images')
    /\ UNCHANGED <<tabVars, homeVars, audioVars>>
    /\ UNCHANGED <<imageLoading, imageUploading, selectedSubcategory, imageReqs,
                   lastFetch, imageMuts>>

NextPair == \E imgs \in PairLists : SetImages(imgs)

SpecPair == InitPair /\ [][NextPair]_vars

\* ------------------------------------------ ordinal extraction on its own
\* The characters filenames are made of: digits, the dot, a letter.
NameChars == {"0", "1", "7", ".", "x"}

\* Every filename of up to MaxNameLen characters.
Filenames == SeqsUpTo(NameChars, MaxNameLen)

\* The listing holds one before asset named filename; the pairing effect
\* extracts its ordinal.
NextNames ==
    \E filename \in Filenames :
        SetImages(<<Asset("comic-translation", Some("japanese"), "before", filename)>>)

SpecNames == InitPair /\ [][NextNames]_vars

\* ------------------------------------------------ the catalog on its own
\* The filenames the catalog is run on: plain ordinals, two files sharing
\* ordinal 1, an ordinal above 3, digits that are not leading, no digits.
AudioFilenames ==
    { <<"1", ".", "m", "p", "3">>, <<"2", ".", "m", "p", "3">>,
      <<"5", ".", "m", "p", "3">>, <<"1", ".", "w", "a", "v">>,
      <<"x", "7", ".", "m", "p", "3">>, <<"i", "n", "t", "r", "o">> }

AudioAssets ==
    { Audio("single-speaker", "english", f) : f \in AudioFilenames }
        \cup { Audio("multi-speaker", "hindi", <<"1", ".", "m", "p", "3">>),
               Audio("multi-speaker", "hindi", <<"4", ".", "m", "p", "3">>) }

\* The listings GET /admin/examples/audio/list is answered with: every
\* file (storage key) is listed once.
AudioLists ==
    {list \in SeqsUpTo(AudioAssets, MaxAudios) :
        \A i \in 1..Len(list) : \A j \in 1..Len(list) : i # j => list[i] # list[j]}

\* AudioManager as it stands right after mounting in an authenticated
\* session: its mount effect's listing fetch is outstanding.
InitAudio ==
    /\ store = Some(Stringify(Creds("admin", "secret")))
    /\ alertMsg = NoAlert
    /\ mounted = TRUE
    /\ categories = CategoryList
    /\ selectedCategory = "audio-story"
    /\ loading = FALSE
    /\ isAuthenticated = TRUE
    /\ authError = ""
    /\ credentials = Creds("admin", "secret")
    /\ loginReq = None
    /\ categoryReqs = <<>>
    /\ images = <<>>
    /\ imagePairs = <<>>
    /\ imageLoading = TRUE
    /\ imageUploading = FALSE
    /\ selectedSubcategory = None
    /\ imageReqs = EmptyBag
    /\ lastFetch = "none"
    /\ imageMuts = EmptyBag
    /\ audios = Some(<<>>)
    /\ audioLoading = TRUE
    /\ audioUploading = FALSE
    /\ activeCategory = AUDIO_CATEGORIES[1]
    /\ audioReqs = Issue(EmptyBag, AudioFetch("effect"))
    /\ audioMuts = EmptyBag

\* The listing fetch is answered 200 with any listing; the operator moves
\* between the category tabs.
NextAudio ==
    \/ \E req \in BagToSet(audioReqs), list \in AudioLists :
          AudioListRespond(req, Response(200, TRUE, None, None, None, Some(list)))
    \/ \E k \in 1..Len(AUDIO_CATEGORIES) : AudioSelectCategory(k)

SpecAudio == InitAudio /\ [][NextAudio]_vars

\* ------------------------------------------------ deleting on its own
\* A session that is up, the directory being VideoCategoryList: its first
\* category is selected and ImageManager has just mounted, its effects'
\* listing fetches outstanding.
InitDelete ==
    /\ store = Some(Stringify(Creds("admin", "secret")))
    /\ alertMsg = NoAlert
    /\ mounted = TRUE
    /\ categories = VideoCategoryList
    /\ selectedCategory = VideoCategoryList[1]
    /\ loading = FALSE
    /\ isAuthenticated = TRUE
    /\ authError = ""
    /\ credentials = Creds("admin", "secret")
    /\ loginReq = None
    /\ categoryReqs = <<>>
    /\ images = <<>>
    /\ imagePairs = <<>>
    /\ imageLoading = TRUE
    /\ imageUploading = FALSE
    /\ selectedSubcategory = InitialSubcategory(selectedCategory)
    /\ imageReqs = IssueFetches(EmptyBag, EffectFetches(selectedCategory, None, store))
    /\ lastFetch = "pending"
    /\ imageMuts = EmptyBag
    /\ audios = Some(<<>>)
    /\ audioLoading = FALSE
    /\ audioUploading = FALSE
    /\ activeCategory = AUDIO_CATEGORIES[1]
    /\ audioReqs = EmptyBag
    /\ audioMuts = EmptyBag

\* The operator moves between the categories and deletes assets; listing
\* fetches and DELETE requests are answered.
NextDelete ==
    \/ \E i \in 1..Len(VideoCategoryList) : SelectCategory(VideoCategoryList[i])
    \/ \E req \in BagToSet(imageReqs), resp \in ListResponses : ImageListRespond(req, resp)
    \/ \E img \in DisplayedImages, confirmed \in BOOLEAN : ImageDelete(img, confirmed)
    \/ \E m \in BagToSet(imageMuts), resp \in MutationResponses : ImageMutationRespond(m, resp)
    \/ \E k \in 1..Len(AUDIO_CATEGORIES) : AudioSelectCategory(k)
    \/ \E req \in BagToSet(audioReqs), resp \in AudioListResponses : AudioListRespond(req, resp)
    \/ \E n \in 1..3, confirmed \in BOOLEAN : AudioDelete(n, confirmed)
    \/ \E m \in BagToSet(audioMuts), resp \in MutationResponses : AudioMutationRespond(m, resp)
    \/ DismissAlert

SpecDelete == InitDelete /\ [][NextDelete]_vars

\* ---------------------------------------------------------------- claims
\* The ordinals of the assets of one type in images: the numbers the
\* reconciler accepts as keys (getImageNumber > 0).
OrdinalsOf(type) ==
    {n \in {getImageNumber(images[i].filename) :
               i \in {j \in 1..Len(images) : images[j].type = type}} : n > 0}

\* The ordinal a pair is labelled with.
PairOrdinal(pair) == ParseInt(pair.filename)

\* C1: every ordinal of the before-set or the after-set labels exactly one
\* pair of imagePairs, no other ordinal labels a pair, and the pairs are in
\* strictly ascending ordinal order.
C1_PairsCoverOrdinals ==
    /\ {PairOrdinal(imagePairs[i]) : i \in 1..Len(imagePairs)}
          = OrdinalsOf("before") \cup OrdinalsOf("after")
    /\ \A i \in 1..Len(imagePairs) : \A j \in 1..Len(imagePairs) :
          i < j => PairOrdinal(imagePairs[i]) < PairOrdinal(imagePairs[j])
    /\ \A i \in 1..Len(imagePairs) :
          imagePairs[i].filename = NumberToString(PairOrdinal(imagePairs[i]))

\* C1 witness: a listing whose ordinals arrive in descending order, one of
\* them on the after side only, reconciled into two pairs.
C1_Witness ==
    /\ Len(images) = 2 /\ Len(imagePairs) = 2
    /\ images[1].type = "before" /\ images[2].type = "after"
    /\ getImageNumber(images[1].filename) > getImageNumber(images[2].filename)
    /\ getImageNumber(images[2].filename) > 0

\* C2: a pair's before side is present iff a before asset has its ordinal,
\* and then it is such an asset; likewise the after side; the pair is shown
\* Complete iff both are present; and an ordinal with an asset on one side
\* only still has its pair, shown Incomplete.
C2_SidesAndCompleteness ==
    /\ \A i \in 1..Len(imagePairs) :
          LET pair == imagePairs[i]
              n    == PairOrdinal(pair)
          IN  /\ IsSome(pair.before) <=> n \in OrdinalsOf("before")
              /\ IsSome(pair.after) <=> n \in OrdinalsOf("after")
              /\ IsSome(pair.before) =>
                    /\ The(pair.before).type = "before"
                    /\ getImageNumber(The(pair.before).filename) = n
                    /\ \E k \in 1..Len(images) : images[k] = The(pair.before)
              /\ IsSome(pair.after) =>
                    /\ The(pair.after).type = "after"
                    /\ getImageNumber(The(pair.after).filename) = n
                    /\ \E k \in 1..Len(images) : images[k] = The(pair.after)
              /\ PairComplete(pair) <=>
                    n \in OrdinalsOf("before") \cap OrdinalsOf("after")
    /\ \A n \in (OrdinalsOf("before") \cup OrdinalsOf("after"))
                  \ (OrdinalsOf("before") \cap OrdinalsOf("after")) :
          \E i \in 1..Len(imagePairs) :
              /\ PairOrdinal(imagePairs[i]) = n
              /\ ~PairComplete(imagePairs[i])

\* C2 witness: before/1.jpg, before/2.jpg, after/1.jpg reconciled into pair
\* 1, complete, and pair 2, incomplete.
C2_Witness ==
    /\ images = << Asset("comic-translation", Some("japanese"), "before", <<"1", ".", "j", "p", "g">>),
                   Asset("comic-translation", Some("japanese"), "before", <<"2", ".", "j", "p", "g">>),
                   Asset("comic-translation", Some("japanese"), "after", <<"1", ".", "j", "p", "g">>) >>
    /\ Len(imagePairs) = 2
    /\ PairOrdinal(imagePairs[1]) = 1 /\ PairComplete(imagePairs[1])
    /\ PairOrdinal(imagePairs[2]) = 2 /\ ~PairComplete(imagePairs[2])
    /\ IsSome(imagePairs[2].before) /\ ~IsSome(imagePairs[2].after)

\* C3: a step in which a request of an authenticated session is answered
\* 401 (category fetch, asset listing, upload, delete, audio listing, audio
\* upload or audio delete) leaves the session unauthenticated and the
\* session store without credentials.
C3_UnauthorizedLogsOut ==
    [][(/\ isAuthenticated
        /\ \/ \E i \in 1..Len(categoryReqs) : CategoryRespond(i, Unauthorized)
           \/ \E req \in BagToSet(imageReqs) : ImageListRespond(req, Unauthorized)
           \/ \E m \in BagToSet(imageMuts) : ImageMutationRespond(m, Unauthorized)
           \/ \E req \in BagToSet(audioReqs) : AudioListRespond(req, Unauthorized)
           \/ \E m \in BagToSet(audioMuts) : AudioMutationRespond(m, Unauthorized))
       => (~isAuthenticated' /\ store' = None)]_vars

\* The Authorization headers of the requests in flight.
RequestHeaders ==
    {categoryReqs[i].auth : i \in 1..Len(categoryReqs)}
    \cup {req.auth : req \in BagToSet(imageReqs)}
    \cup {m.auth : m \in BagToSet(imageMuts)}
    \cup {req.auth : req \in BagToSet(audioReqs)}
    \cup {m.auth : m \in BagToSet(audioMuts)}

\* C4: while the session is authenticated with cached credentials, every
\* request in flight (category list, asset list, upload, delete, audio
\* list, audio upload, audio delete) carries the Authorization: Basic
\* header built from the cached username and password.
C4_EveryRequestAuthorized ==
    (isAuthenticated /\ Truthy(credentials)) =>
        \A header \in RequestHeaders :
            header = Some(BasicAuth(credentials.username, credentials.password))

\* C5: when the login probe is answered 401, authError becomes "Invalid
\* username or password", isAuthenticated stays false and Home renders the
\* login form again.
C5_Login401Rejected ==
    [][LoginRespond(Unauthorized) =>
          /\ authError' = "Invalid username or password"
          /\ ~isAuthenticated /\ ~isAuthenticated'
          /\ LoginFormShown'
          /\ store' = store /\ credentials' = credentials]_vars

\* C5 witness: the probe was answered 401 and the form shows the error.
C5_Witness ==
    /\ authError = "Invalid username or password"
    /\ LoginFormShown /\ ~isAuthenticated /\ loginReq = None

SuccessTexts ==
    {"Image uploaded successfully!", "Video uploaded successfully!",
     "Image deleted successfully!", "Audio uploaded successfully!"}

\* C7: when an upload or delete is answered 2xx, a listing fetch is issued
\* for it and nothing is reported yet; success is reported only in the step
\* in which a listing fetch issued for an upload or delete is answered; and
\* in that step the list is replaced by what the reply's listing holds.
C7_RefetchAwaitedBeforeSuccess ==
    [][/\ \A resp \in MutationResponses :
            Ok(resp) =>
               /\ \A m \in BagToSet(imageMuts) : ImageMutationRespond(m, resp) =>
                     /\ imageReqs' = IssueFetch(imageReqs,
                           ListFetch(m.category, m.subcategory, store, m.op))
                     /\ alertMsg' = NoAlert
                     /\ images' = images
               /\ \A m \in BagToSet(audioMuts) : AudioMutationRespond(m, resp) =>
                     /\ audioReqs' = Issue(audioReqs, AudioFetch(m.op))
                     /\ alertMsg' = NoAlert
                     /\ audios' = audios
       /\ (alertMsg' # alertMsg /\ alertMsg'.text \in SuccessTexts) =>
             \/ \E req \in BagToSet(imageReqs) :
                   /\ req.after \in {"upload", "delete"}
                   /\ imageReqs' = Settle(imageReqs, req)
                   /\ imageMuts' = imageMuts
             \/ \E req \in BagToSet(audioReqs) :
                   /\ req.after = "upload"
                   /\ audioReqs' = Settle(audioReqs, req)
                   /\ audioMuts' = audioMuts
       /\ \A req \in BagToSet(imageReqs) : \A resp \in ListResponses :
            (/\ req.after \in {"upload", "delete"}
             /\ Ok(resp)
             /\ ImageListRespond(req, resp)) =>
               /\ images' = categoryImages(The(resp.images), req.category,
                                          req.subcategory)
               /\ imagePairs' = Pairs(images')
               /\ alertMsg'.text \in SuccessTexts]_vars

\* C7 witness: an upload was answered 2xx, the listing fetch it awaited
\* brought a listing, and only then the upload is reported done.
C7_Witness ==
    /\ alertMsg = Alert("Image uploaded successfully!")
    /\ ImageMounted /\ images # <<>> /\ imageUploading
    /\ imageReqs = EmptyBag /\ imageMuts = EmptyBag

\* C8: clicking another image category keeps every outstanding listing
\* fetch outstanding, and the reply to a fetch issued for a category that
\* is no longer the selected one is still applied: images becomes that
\* category's part of the reply.
C8_StaleCategoryReplyApplied ==
    [][/\ \A id \in {CategoryList[k] : k \in 1..Len(CategoryList)} :
            (SelectCategory(id) /\ ImageMounted /\ ImageMounted') =>
               /\ BagCardinality(imageReqs') > BagCardinality(imageReqs)
               /\ \A req \in BagToSet(imageReqs) :
                     CopiesIn([req EXCEPT !.newest = FALSE], imageReqs')
                         >= CopiesIn(req, imageReqs)
               /\ images' = images
       /\ \A req \in BagToSet(imageReqs) : \A resp \in ListResponses :
            (/\ req.category # selectedCategory
             /\ Ok(resp)
             /\ ImageListRespond(req, resp)) =>
               images' = categoryImages(The(resp.images), req.category,
                                        req.subcategory)]_vars

\* C8 witness: nothing is outstanding any more and the images displayed are
\* all of a category other than the selected one.
C8_Witness ==
    /\ ImageMounted /\ ~imageLoading /\ imageReqs = EmptyBag
    /\ images # <<>>
    /\ \A k \in 1..Len(images) : images[k].category # selectedCategory

\* C9: whichever of the outstanding listing fetches is answered, first
\* issued or last, its listing becomes the listing state; so once all are
\* answered the state is that of the reply that arrived last.
C9_LastArrivingReplyWins ==
    [][\A req \in BagToSet(imageReqs) : \A resp \in ListResponses :
          (Ok(resp) /\ ImageListRespond(req, resp)) =>
             /\ images' = categoryImages(The(resp.images), req.category,
                                        req.subcategory)
             /\ imagePairs' = Pairs(images')
             /\ imageReqs' = Settle(imageReqs, req)]_vars

\* C9 witness: all listing fetches are answered, and the listing held came
\* from a fetch issued before one that had been answered earlier.
C9_Witness ==
    /\ ImageMounted /\ imageReqs = EmptyBag /\ imageMuts = EmptyBag
    /\ lastFetch = "stale"
    /\ images # <<>>

\* C10: images and audios change only in a step in which a listing fetch
\* is answered successfully (or the manager is mounted or unmounted);
\* answering an upload or delete never changes them.
C10_ListChangesOnlyOnFetch ==
    [][/\ (images' # images /\ ImageMounted /\ ImageMounted') =>
             \E req \in BagToSet(imageReqs) : \E resp \in ListResponses :
                 Ok(resp) /\ ImageListRespond(req, resp)
       /\ (audios' # audios /\ AudioMounted /\ AudioMounted') =>
             \E req \in BagToSet(audioReqs) : \E resp \in AudioListResponses :
                 Ok(resp) /\ AudioListRespond(req, resp)]_vars

\* The integer a run of decimal digits denotes.
RECURSIVE DecimalValue(_)
DecimalValue(ds) ==
    IF ds = <<>> THEN 0
    ELSE DigitValue(Head(ds)) * 10 ^ (Len(ds) - 1) + DecimalValue(Tail(ds))

\* The lengths n such that filename starts with n >= 1 decimal digits
\* immediately followed by a dot (at most one such n exists).
LeadingDigitCounts(filename) ==
    {n \in 1..(Len(filename) - 1) :
        /\ \A k \in 1..n : IsDigit(filename[k])
        /\ filename[n + 1] = "."}

\* C11: for every filename that starts with one or more decimal digits
\* immediately followed by a dot, getImageNumber is the integer those
\* digits denote (and, when it is positive, the pairing effect labels the
\* asset's pair with it); for every other filename getImageNumber is -1,
\* "no ordinal", and the asset gets no pair.
C11_OrdinalExtraction ==
    \A i \in 1..Len(images) :
        LET filename == images[i].filename
            counts   == LeadingDigitCounts(filename)
        IN  /\ \A n \in counts :
                  /\ getImageNumber(filename) = DecimalValue(SubSeq(filename, 1, n))
                  /\ (Len(images) = 1 /\ DecimalValue(SubSeq(filename, 1, n)) > 0) =>
                        /\ Len(imagePairs) = 1
                        /\ ParseInt(imagePairs[1].filename)
                              = DecimalValue(SubSeq(filename, 1, n))
            /\ counts = {} =>
                  /\ getImageNumber(filename) = -1
                  /\ Len(images) = 1 => imagePairs = <<>>

\* C11 witness: "17.x" was listed and its pair is labelled 17.
C11_Witness ==
    /\ Len(images) = 1 /\ images[1].filename = <<"1", "7", ".", "x">>
    /\ Len(imagePairs) = 1 /\ imagePairs[1].filename = <<"1", "7">>

\* The assets of images that have an ordinal of 1 or more.
NumberedImages ==
    {images[i] : i \in {j \in 1..Len(images) : getImageNumber(images[j].filename) >= 1}}

\* C12: an asset whose filename yields ordinal 0 or no ordinal is on
\* neither side of any pair and creates no pair: every pair is labelled
\* with an ordinal of 1 or more that a numbered asset carries, and both of
\* its sides, where present, are numbered assets.
C12_UnnumberedExcluded ==
    /\ \A i \in 1..Len(imagePairs) :
          LET pair == imagePairs[i]
          IN  /\ PairOrdinal(pair) >= 1
              /\ \E img \in NumberedImages :
                    getImageNumber(img.filename) = PairOrdinal(pair)
              /\ IsSome(pair.before) => The(pair.before) \in NumberedImages
              /\ IsSome(pair.after) => The(pair.after) \in NumberedImages
    /\ \A i \in 1..Len(images) :
          getImageNumber(images[i].filename) < 1 =>
              \A k \in 1..Len(imagePairs) :
                  /\ imagePairs[k].before # Some(images[i])
                  /\ imagePairs[k].after # Some(images[i])
    /\ NumberedImages = {} => imagePairs = <<>>

\* C12 witness: "0.png" and "x1.jpg" are listed beside "1.jpg", and the
\* one pair is that of ordinal 1.
C12_Witness ==
    /\ Len(images) = 3 /\ Len(imagePairs) = 1
    /\ \E i \in 1..3 : images[i].filename = <<"0", ".", "p", "n", "g">>
    /\ \E i \in 1..3 : images[i].filename = <<"x", "1", ".", "j", "p", "g">>
    /\ \E i \in 1..3 : images[i].filename = <<"1", ".", "j", "p", "g">>
    /\ PairOrdinal(imagePairs[1]) = 1

\* C13: for every filename of the audio listing, getAudioNumber and
\* getImageNumber agree on whether an ordinal exists and on its value:
\* where getImageNumber finds none, getAudioNumber reports its "none" (0),
\* and where getImageNumber finds one, getAudioNumber returns the same.
C13_AudioOrdinalAgrees ==
    IsSome(audios) =>
        \A i \in 1..Len(The(audios)) :
            LET filename == The(audios)[i].filename
            IN  IF getImageNumber(filename) = -1
                THEN getAudioNumber(filename) = 0
                ELSE getAudioNumber(filename) = getImageNumber(filename)

\* C14: when the login probe is answered with a non-2xx status other than
\* 401, authError becomes "Authentication failed"; when the probe fails on
\* the network, authError becomes "Failed to connect to server"; either
\* way isAuthenticated stays false, credentials stay null, the session
\* store stays empty and the login form is shown again.
C14_LoginFailureCachesNothing ==
    [][\A resp \in LoginResponses :
          (/\ IsSome(loginReq)
           /\ resp.failed \/ (~Ok(resp) /\ resp.status # 401)
           /\ LoginRespond(resp)) =>
              /\ authError' = IF resp.failed THEN "Failed to connect to server"
                                             ELSE "Authentication failed"
              /\ ~isAuthenticated /\ ~isAuthenticated'
              /\ credentials = Null /\ credentials' = Null
              /\ store = None /\ store' = None
              /\ LoginFormShown']_vars

\* C14 witness: the probe was answered 500 and the form shows the error
\* with nothing cached.
C14_Witness ==
    /\ authError = "Authentication failed"
    /\ LoginFormShown /\ loginReq = None
    /\ credentials = Null /\ store = None

\* The probe failed on the network and the form says so.
C14_WitnessNetwork ==
    /\ authError = "Failed to connect to server"
    /\ LoginFormShown /\ loginReq = None
    /\ credentials = Null /\ store = None

\* C15: when the login probe is answered 2xx, isAuthenticated becomes true
\* and credentials and the admin_auth item both hold exactly the submitted
\* username and password; as long as the session stays authenticated
\* neither changes; and the Authorization header built from the store is
\* Basic base64(username:password) of those same two.
C15_LoginCachesSubmitted ==
    [][/\ \A resp \in LoginResponses :
             (IsSome(loginReq) /\ Ok(resp) /\ LoginRespond(resp)) =>
                 /\ isAuthenticated'
                 /\ credentials'.kind = "object"
                 /\ credentials'.username = Some(The(loginReq).username)
                 /\ credentials'.password = Some(The(loginReq).password)
                 /\ IsSome(store') /\ The(store').parses
                 /\ The(store').value = credentials'
                 /\ getAuthHeaders(store')
                       = Some([scheme |-> "Basic",
                               b64 |-> <<The(loginReq).username, ":",
                                         The(loginReq).password>>])
       /\ (isAuthenticated /\ isAuthenticated') =>
             /\ credentials' = credentials
             /\ store' = store]_vars

\* C15 witness: a session is up with the submitted pair cached in both
\* places and no probe outstanding.
C15_Witness ==
    /\ isAuthenticated /\ loginReq = None /\ ~loading
    /\ credentials.username = Some("admin") /\ credentials.password = Some("secret")
    /\ IsSome(store) /\ The(store).value = credentials
    /\ categories # <<>>

\* C16: a Logout click in an authenticated session leaves isAuthenticated
\* false, credentials null, no admin_auth item in the session store (so no
\* Authorization header can be built), the category list empty and no
\* category selected; the login form is shown.
C16_LogoutClearsSession ==
    [][(isAuthenticated /\ Logout) =>
          /\ ~isAuthenticated'
          /\ credentials' = Null
          /\ store' = None /\ getAuthHeaders(store') = None
          /\ categories' = <<>>
          /\ selectedCategory' = ""
          /\ LoginFormShown'
          /\ ~ImageMounted' /\ ~AudioMounted']_vars

\* C16 witness: logged out while a category fetch of the session was still
\* outstanding; everything is cleared.
C16_Witness ==
    /\ mounted /\ ~isAuthenticated /\ categoryReqs # <<>>
    /\ credentials = Null /\ store = None
    /\ categories = <<>> /\ selectedCategory = ""

\* C17: a Delete click whose confirmation is declined changes nothing (no
\* DELETE request, no listing fetch, no state change), in ImageManager and
\* in AudioManager; and a step that adds a DELETE request to the
\* outstanding ones is a Delete click on a shown asset whose confirmation
\* was accepted, the request naming that asset.
C17_DeleteNeedsConfirmation ==
    [][/\ (ImageMounted /\ vars' # vars) =>
             \A img \in DisplayedImages : ~ImageDelete(img, FALSE)
       /\ (AudioGridShown /\ vars' # vars) =>
             \A number \in Slots : ~AudioDelete(number, FALSE)
       /\ \A m \in (IF imageMuts' = imageMuts THEN {} ELSE BagToSet(imageMuts')) :
             (m.op = "delete" /\ CopiesIn(m, imageMuts') > CopiesIn(m, imageMuts)) =>
                 \E img \in DisplayedImages :
                     /\ ImageDelete(img, TRUE)
                     /\ m.path = <<img.category>>
                                    \o (IF IsSome(img.subcategory)
                                        THEN <<The(img.subcategory)>> ELSE <<>>)
                                    \o <<img.type, img.filename>>
       /\ \A m \in (IF audioMuts' = audioMuts THEN {} ELSE BagToSet(audioMuts')) :
             (m.op = "delete" /\ CopiesIn(m, audioMuts') > CopiesIn(m, audioMuts)) =>
                 \E number \in Slots :
                     /\ AudioDelete(number, TRUE)
                     /\ m.path[3] = The(SlotAudio(number)).filename]_vars

\* C17 witness: an image DELETE request is outstanding, its confirmation
\* having been accepted.
C17_Witness ==
    \E m \in BagToSet(imageMuts) : m.op = "delete" /\ m.path[Len(m.path)] = Img1.filename

\* An audio DELETE request is outstanding.
C17_WitnessAudio ==
    \E m \in BagToSet(audioMuts) : m.op = "delete"

C18_WitnessAudio ==
    \E m \in BagToSet(audioMuts) :
        m.op = "delete" /\ m.path = <<"multi-speaker", "hindi", Aud3.filename>>

\* The positions of list holding the assets of category.
CategoryPositions(list, category) ==
    {i \in 1..Len(list) : /\ list[i].speaker_mode = category.speaker
                          /\ list[i].language = category.language}

\* list rearranged by the permutation p of its positions.
Permuted(list, p) == [i \in 1..Len(list) |-> list[p[i]]]

\* C19: for every audio category, getCategoryAudios of the fetched list
\* holds exactly the assets of that category, each as often as the list
\* does, in strictly ascending order of getAudioNumber, and is the same
\* for every permutation of the fetched list.
C19_CategoryAudiosSorted ==
    IsSome(audios) =>
        \A k \in 1..Len(AUDIO_CATEGORIES) :
            LET list   == The(audios)
                result == getCategoryAudios(list, AUDIO_CATEGORIES[k])
            IN  /\ Len(result) = Cardinality(CategoryPositions(list, AUDIO_CATEGORIES[k]))
                /\ \A i \in 1..Len(result) :
                      Cardinality({j \in 1..Len(result) : result[j] = result[i]})
                        = Cardinality({j \in CategoryPositions(list, AUDIO_CATEGORIES[k]) :
                                          list[j] = result[i]})
                /\ \A i \in 1..Len(result) : \A j \in 1..Len(result) :
                      i < j => getAudioNumber(result[i].filename)
                                 < getAudioNumber(result[j].filename)
                /\ \A p \in Permutations(1..Len(list)) :
                      getCategoryAudios(Permuted(list, p), AUDIO_CATEGORIES[k]) = result

\* The ordinals of the fetched assets of the active category.
ActiveOrdinals ==
    {getAudioNumber(The(audios)[i].filename) :
        i \in CategoryPositions(The(audios), activeCategory)}

\* C20: whenever the audio grid is shown, its slots are 1..N without gaps,
\* N is at least 3 and at least every ordinal of the active category, and
\* N is 3 or the ordinal of one of the category's assets; so N is
\* max(3, highest ordinal), and every asset with an ordinal of 1 or more
\* has its slot.
C20_AtLeastThreeSlots ==
    AudioGridShown =>
        \E N \in 3..(3 + MaxOf(ActiveOrdinals)) :
            /\ Slots = 1..N
            /\ \A n \in ActiveOrdinals : n <= N
            /\ N = 3 \/ N \in ActiveOrdinals
            /\ \A n \in ActiveOrdinals : n >= 1 => IsSome(SlotAudio(n))

\* C20 witness: the active category holds one asset, of ordinal 1, and the
\* grid shows three slots, two of them empty.
C20_Witness ==
    /\ AudioGridShown /\ ActiveOrdinals = {1}
    /\ Cardinality(CategoryPositions(The(audios), activeCategory)) = 1
    /\ Slots = {1, 2, 3}
    /\ IsSome(SlotAudio(1)) /\ ~IsSome(SlotAudio(2)) /\ ~IsSome(SlotAudio(3))

\* The active category's highest ordinal is 5 and the grid shows 5 slots.
C20_WitnessFive ==
    /\ AudioGridShown /\ 5 \in ActiveOrdinals /\ 7 \notin ActiveOrdinals
    /\ Slots = 1..5

\* The active category is empty and the grid still shows three slots.
C20_WitnessEmpty ==
    /\ AudioGridShown /\ ActiveOrdinals = {} /\ The(audios) # <<>>
    /\ Slots = 1..3

\* C21: whenever the audio grid is shown, the number announced under
\* "Upload New Audio" is 1 or more, is above every ordinal of the active
\* category's assets (so it is the ordinal of none of them), and is the
\* successor of one of those ordinals, or 1 when the category has no asset
\* with an ordinal.
C21_NextUnusedOrdinalAnnounced ==
    AudioGridShown =>
        /\ announcedNumber >= 1
        /\ \A n \in ActiveOrdinals : n < announcedNumber
        /\ announcedNumber \notin ActiveOrdinals
        /\ announcedNumber = 1 \/ (announcedNumber - 1) \in ActiveOrdinals
        /\ (\A n \in ActiveOrdinals : n = 0) => announcedNumber = 1

\* C21 witness: the active category holds ordinals 2 and 5 only, and 6 is
\* announced although slots 1, 3 and 4 are empty.
C21_Witness ==
    /\ AudioGridShown /\ ActiveOrdinals = {2, 5}
    /\ announcedNumber = 6
    /\ ~IsSome(SlotAudio(1))

\* The active category is empty and 1 is announced.
C21_WitnessEmpty ==
    /\ AudioGridShown /\ ActiveOrdinals = {} /\ The(audios) # <<>>
    /\ announcedNumber = 1

\* A request failed: no reply came, or the reply's status is not 2xx.
FailedReply(resp) == resp.failed \/ ~Ok(resp)

\* This step sends a request: some request is outstanding more often
\* after it than before.
RequestSent ==
    \/ IsSome(loginReq') /\ loginReq' # loginReq
    \/ \E i \in 1..Len(categoryReqs') :
          Cardinality({j \in 1..Len(categoryReqs') : categoryReqs'[j] = categoryReqs'[i]})
            > Cardinality({j \in 1..Len(categoryReqs) : categoryReqs[j] = categoryReqs'[i]})
    \/ \E r \in (IF imageReqs' = imageReqs THEN {} ELSE BagToSet(imageReqs')) :
          CopiesIn([r EXCEPT !.newest = TRUE], imageReqs')
            + CopiesIn([r EXCEPT !.newest = FALSE], imageReqs')
              > CopiesIn([r EXCEPT !.newest = TRUE], imageReqs)
                  + CopiesIn([r EXCEPT !.newest = FALSE], imageReqs)
    \/ \E r \in (IF imageMuts' = imageMuts THEN {} ELSE BagToSet(imageMuts')) :
          CopiesIn(r, imageMuts') > CopiesIn(r, imageMuts)
    \/ \E r \in (IF audioReqs' = audioReqs THEN {} ELSE BagToSet(audioReqs')) :
          CopiesIn(r, audioReqs') > CopiesIn(r, audioReqs)
    \/ \E r \in (IF audioMuts' = audioMuts THEN {} ELSE BagToSet(audioMuts')) :
          CopiesIn(r, audioMuts') > CopiesIn(r, audioMuts)

PositionsOf(type, n) ==
    {i \in 1..Len(images) : /\ images[i].type = type
                            /\ getImageNumber(images[i].filename) = n}

\* C24: when several listed assets of one type have the same ordinal (1 or
\* more), the pair of that ordinal holds, on that type's side, the one
\* listed last, and every other of them is on no side of any pair.
C24_LastDuplicateWins ==
    \A type \in {"before", "after"} :
        \A i \in 1..Len(images) :
            LET n    == getImageNumber(images[i].filename)
                same == PositionsOf(type, n)
                last == CHOOSE j \in same : \A k \in same : k <= j
            IN  (images[i].type = type /\ n >= 1 /\ Cardinality(same) >= 2) =>
                    /\ \E p \in 1..Len(imagePairs) :
                          /\ PairOrdinal(imagePairs[p]) = n
                          /\ (IF type = "before" THEN imagePairs[p].before
                                                 ELSE imagePairs[p].after)
                                = Some(images[last])
                    /\ images[i] # images[last] =>
                          \A p \in 1..Len(imagePairs) :
                              /\ imagePairs[p].before # Some(images[i])
                              /\ imagePairs[p].after # Some(images[i])

\* C24 witness: "1.jpg" is listed before "01.png", both before assets of
\* ordinal 1, and the one pair holds "01.png".
C24_Witness ==
    /\ Len(images) = 2 /\ Len(imagePairs) = 1
    /\ images[1].type = "before" /\ images[2].type = "before"
    /\ images[1].filename = <<"1", ".", "j", "p", "g">>
    /\ images[2].filename = <<"0", "1", ".", "p", "n", "g">>
    /\ imagePairs[1].before = Some(images[2])
    /\ imagePairs[1].filename = <<"1">>

\* C25: a step in which a listing fetch fails (no reply, or a reply whose
\* body holds no listing) leaves the listing and the pairs derived from
\* it as they were, sets the loading flag to false and leaves the view
\* rendered; in ImageManager and in AudioManager.
C25_FailedFetchKeepsListing ==
    [][/\ \A req \in BagToSet(imageReqs) : \A resp \in ListResponses :
             ((resp.failed \/ ~IsSome(resp.images)) /\ ImageListRespond(req, resp)) =>
                 /\ images' = images /\ imagePairs' = imagePairs
                 /\ ~imageLoading'
       /\ \A req \in BagToSet(audioReqs) : \A resp \in AudioListResponses :
             ((resp.failed \/ ~IsSome(resp.audios)) /\ AudioListRespond(req, resp)) =>
                 /\ audios' = audios
                 /\ ~audioLoading'
                 /\ ~Crashed']_vars

\* The subcategory filter of fetch is valid for the category it filters by.
ValidFilter(fetch) ==
    IF subcategories(fetch.category) = <<>>
    THEN fetch.subcategory = None
    ELSE /\ IsSome(fetch.subcategory)
         /\ \E i \in DOMAIN subcategories(fetch.category) :
                subcategories(fetch.category)[i] = The(fetch.subcategory)

\* C26: every listing fetch ImageManager has in flight filters by a
\* subcategory of the category it filters by, or by no subcategory only when
\* that category has none; on first mount and after every category switch.
C26_FetchFilterValid ==
    \A fetch \in BagToSet(imageReqs) : ValidFilter(fetch)

\* C27: while the gate is unauthenticated the category list is empty and no
\* category is selected, whatever category fetch is answered after a logout.
C27_LoggedOutHoldsNoCategories ==
    ~isAuthenticated => (categories = <<>> /\ selectedCategory = "")

\* C28: while isAuthenticated is true, credentials is a username/password
\* record and sessionStorage holds that record under admin_auth, whatever
\* sessionStorage held when the page loaded.
C28_AuthenticatedHoldsCredentials ==
    isAuthenticated =>
        /\ credentials.kind = "object"
        /\ store = Some(Stringify(credentials))

\* C29: in ImageManager loading is true exactly while a listing fetch is
\* outstanding: true whenever one is in flight, false once none is.
C29_LoadingWhileFetching ==
    ImageMounted => (imageLoading <=> imageReqs # EmptyBag)

\* The slots of the grid that show an asset.
FilledSlots == {n \in Slots : IsSome(SlotAudio(n))}

\* C30: whenever the audio grid is shown, every asset of the active category
\* is shown in exactly one slot, and the number of filled slots is the count
\* on the category's tab, getCategoryAudios(category).length.
C30_EveryAudioInOneSlot ==
    AudioGridShown =>
        /\ \A i \in 1..Len(categoryAudios) :
              Cardinality({n \in Slots : SlotAudio(n) = Some(categoryAudios[i])}) = 1
        /\ Cardinality(FilledSlots) = Len(categoryAudios)


====
